---- MODULE Spec2Model ----
(***************************************************************************)
(* Verification model of the agentic-finance trading core.                 *)
(*                                                                         *)
(* The repository holds two independent pipelines:                         *)
(*   - the manual-trade API (src/api/api.py) over ExecutionEngine          *)
(*     (src/execution/execution.py) and the PortfolioManager of            *)
(*     src/portfolio_manager/portfolio_manager.py  -> specification SpecApi*)
(*   - the backtest TradingSimulator (src/simulator/trading_simulator.py)  *)
(*     over the PortfolioManager of src/backend/models and the RiskManager *)
(*     of src/backend/services                     -> specification SpecSim*)
(* Pure functions are exercised by SpecAgg (aggregate_signals), SpecPlan   *)
(* (_determine_action_for_symbol) and SpecData (_get_market_data_for_date);*)
(* SpecRisk is the RiskManager of src/risk_manager/risk_manager.py behind  *)
(* the signal route of the API.                                            *)
(*                                                                         *)
(* Numbers.  Python floats are modelled by exact integers / rationals:     *)
(*   API pipeline : money in whole dollars, share counts are integers,     *)
(*                  sizes in basis points (1/10000 of the portfolio).      *)
(*   backtest     : money in cents, quantities in hundredths of a share    *)
(*                  (process_signal rounds to 2 decimals), prices in whole *)
(*                  dollars, confidences and average prices as reduced     *)
(*                  rationals <<numerator, denominator>>.                  *)
(*   risk manager : risks, confidences and limits as reduced rationals.    *)
(*   dates        : day numbers, weekday = day % 7 with 0 = Monday.        *)
(***************************************************************************)
EXTENDS Integers, Sequences, FiniteSets, TLC

----------------------------------------------------------------------------
(* Bounds of the model *)

MaxOrders == 2
MaxDays == 1
MaxSignals == 3
MaxUpdates == 1
MaxMetricsCalls == 2

----------------------------------------------------------------------------
(* Generic helpers *)

None == "None"

Abs(x) == IF x < 0 THEN -x ELSE x

Min(a, b) == IF a <= b THEN a ELSE b

Max(a, b) == IF a >= b THEN a ELSE b

RECURSIVE Gcd(_, _)
Gcd(a, b) == IF b = 0 THEN a ELSE Gcd(b, a % b)

\* A rational number n/d as a reduced pair with d > 0.
Rat(n, d) ==
    LET g == Gcd(Abs(n), Abs(d))
        s == IF d < 0 THEN -1 ELSE 1
    IN  IF n = 0 THEN <<0, 1>> ELSE <<s * (n \div g), s * (d \div g)>>

RatAdd(x, y) == Rat(x[1] * y[2] + y[1] * x[2], x[2] * y[2])

RatMul(x, y) == Rat(x[1] * y[1], x[2] * y[2])

RatDivInt(x, k) == Rat(x[1], x[2] * k)

\* k * x for an integer k, cancelling before multiplying
RatScale(x, k) ==
    LET g == IF k = 0 THEN 1 ELSE Gcd(Abs(k), x[2])
    IN  Rat((k \div g) * x[1], x[2] \div g)

RatLess(x, y) == x[1] * y[2] < y[1] * x[2]

RatLeq(x, y) == x[1] * y[2] <= y[1] * x[2]

RatMin(x, y) == IF RatLeq(x, y) THEN x ELSE y

RatMax(x, y) == IF RatLeq(x, y) THEN y ELSE x

RatNeg(x) == <<-x[1], x[2]>>

RatDiv(x, y) == Rat(x[1] * y[2], x[2] * y[1])

\* dict operations: a dict is a function whose DOMAIN is its key set
Put(m, k, v) == [x \in (DOMAIN m) \cup {k} |-> IF x = k THEN v ELSE m[x]]

Del(m, k) == [x \in (DOMAIN m) \ {k} |-> m[x]]

EmptyDict == [x \in {} |-> 0]

RECURSIVE SumOver(_, _)
SumOver(f, S) ==
    IF S = {} THEN 0
    ELSE LET x == CHOOSE y \in S : TRUE IN f[x] + SumOver(f, S \ {x})

----------------------------------------------------------------------------
(* State *)

VARIABLES
    \* src/portfolio_manager/portfolio_manager.py PortfolioManager
    pm_cash,            \* self.cash (dollars)
    pm_positions,       \* self.positions: symbol -> [quantity, value]
    pm_max_positions,   \* self.max_positions (configuration)
    det_in,             \* arguments of _determine_action_for_symbol
    det_out,            \* its return value
    \* src/execution/execution.py ExecutionEngine
    market_prices,      \* self.market_prices: symbol -> price
    order_history,      \* self.order_history
    \* src/backend/models/portfolio_manager.py PortfolioManager
    cash,               \* self.cash (cents)
    positions,          \* self.positions: ticker -> [quantity, avg_price, last_price]
    transaction_history,\* self.transaction_history
    \* src/backend/services/risk_manager.py RiskManager
    risk_threshold,     \* self.risk_threshold (percent)
    \* src/simulator/trading_simulator.py TradingSimulator
    tickers,            \* self.tickers
    current_date,       \* self.current_date (day number; weekday = day % 7)
    end_date,           \* self.end_date
    simulation_history, \* self.simulation_history
    metrics,            \* what get_performance_metrics returned for this history
    metrics_calls,      \* number of its calls since the history last changed
    raised,             \* the exception that left the last run_simulation_step call
    step_status,        \* the "status" of what the last run_simulation_step returned
    \* pure-function harness
    agg_in,             \* argument of aggregate_signals
    agg_out,            \* its return value
    \* src/risk_manager/risk_manager.py RiskManager
    rm_config,          \* self.config and the limits read from it
    portfolio_history,  \* self.portfolio_history
    current_positions,  \* self.current_positions: symbol -> size (percent)
    risk_updates,       \* number of update_portfolio_state calls made
    rm_out,             \* what the last process_signals call computed
    \* src/backend/services/market_data.py and _get_market_data_for_date
    now,                \* datetime.now(): the day the program runs on
    md_in,              \* arguments of _get_market_data_for_date
    md_out              \* the market data it returns, reduced to its dates

apiVars == <<pm_cash, pm_positions, market_prices, order_history>>
planVars == <<pm_max_positions, det_in, det_out>>
simVars == <<cash, positions, transaction_history, risk_threshold, tickers,
             current_date, end_date, simulation_history, metrics, metrics_calls,
             raised, step_status>>
aggVars == <<agg_in, agg_out>>
riskVars == <<rm_config, portfolio_history, current_positions, risk_updates, rm_out>>
dataVars == <<now, md_in, md_out>>
vars == <<apiVars, planVars, simVars, aggVars, riskVars, dataVars>>

----------------------------------------------------------------------------
(* src/portfolio_manager/portfolio_manager.py : PortfolioManager           *)

PmSymbols == {"AAA", "BBB"}

PmInitialCash == 1000000

\* A portfolio is the pair [cash, positions]; each operator below gives the
\* portfolio after one branch of update_position, value = abs(quantity) * price.

\* action == 'BUY' (lines 209-222): no check of the available cash
PmBuy(c, pos, symbol, quantity, price) ==
    LET value == Abs(quantity) * price
    IN  [cash |-> c - value,
         positions |->
             IF symbol \in DOMAIN pos
             THEN Put(pos, symbol,
                      [quantity |-> pos[symbol].quantity + quantity,
                       value |-> pos[symbol].value + value])
             ELSE Put(pos, symbol, [quantity |-> quantity, value |-> value])]

\* action == 'SELL' (lines 224-237): the whole value is credited whenever the
\* symbol is held, the entry is dropped when the quantity falls to <= 0
PmSell(c, pos, symbol, quantity, price) ==
    LET value == Abs(quantity) * price
    IN  IF symbol \in DOMAIN pos
        THEN LET q == pos[symbol].quantity - quantity
             IN  [cash |-> c + value,
                  positions |->
                      IF q <= 0 THEN Del(pos, symbol)
                      ELSE Put(pos, symbol, [quantity |-> q, value |-> q * price])]
        ELSE [cash |-> c, positions |-> pos]

\* mutant of PmShort: the short sale is paid for instead of credited
PmShortDebits(c, pos, symbol, quantity, price) ==
    LET value == Abs(quantity) * price
    IN  [cash |-> c - value,
         positions |->
             IF symbol \in DOMAIN pos
             THEN Put(pos, symbol,
                      [quantity |-> pos[symbol].quantity - quantity,
                       value |-> pos[symbol].value + value])
             ELSE Put(pos, symbol, [quantity |-> -quantity, value |-> value])]

\* action == 'SHORT' (lines 239-252)
PmShort(c, pos, symbol, quantity, price) ==
    LET value == Abs(quantity) * price
    IN  [cash |-> c + value,
         positions |->
             IF symbol \in DOMAIN pos
             THEN Put(pos, symbol,
                      [quantity |-> pos[symbol].quantity - quantity,
                       value |-> pos[symbol].value + value])
             ELSE Put(pos, symbol, [quantity |-> -quantity, value |-> value])]

\* action == 'COVER' (lines 254-268)
PmCover(c, pos, symbol, quantity, price) ==
    LET value == Abs(quantity) * price
    IN  IF symbol \in DOMAIN pos /\ pos[symbol].quantity < 0
        THEN LET q == pos[symbol].quantity + quantity
             IN  [cash |-> c - value,
                  positions |->
                      IF q >= 0 THEN Del(pos, symbol)
                      ELSE Put(pos, symbol,
                               [quantity |-> q, value |-> Abs(q) * price])]
        ELSE [cash |-> c, positions |-> pos]

\* update_position(symbol, quantity, price, action)
update_position(c, pos, symbol, quantity, price, action) ==
    CASE action = "BUY" -> PmBuy(c, pos, symbol, quantity, price)
      [] action = "SELL" -> PmSell(c, pos, symbol, quantity, price)
      [] action = "SHORT" -> PmShort(c, pos, symbol, quantity, price)
      [] action = "COVER" -> PmCover(c, pos, symbol, quantity, price)
      [] OTHER -> [cash |-> c, positions |-> pos]

\* _get_portfolio_value
_get_portfolio_value(c, pos) ==
    c + SumOver([s \in DOMAIN pos |-> pos[s].value], DOMAIN pos)

----------------------------------------------------------------------------
(* src/execution/execution.py : ExecutionEngine                            *)

\* _calculate_quantity assumes this total portfolio value
AssumedPortfolioValue == 1000000

\* the prices the simulated market can quote (random.uniform(10, 1000) at
\* first, then a move of -2% .. +2% per update)
PriceGrid == {100, 101}

\* price_change = price * random.uniform(-0.02, 0.02)
Drift(p, p2) == (-2) * p <= 100 * (p2 - p) /\ 100 * (p2 - p) < 2 * p

\* _update_market_prices([symbol]): the prices it can leave for symbol
UpdatedPrices(symbol) ==
    IF symbol \notin DOMAIN market_prices
    THEN PriceGrid
    ELSE {p \in PriceGrid : Drift(market_prices[symbol], p)}

\* int() truncates toward zero
Trunc(n, d) == IF n >= 0 THEN n \div d ELSE -((-n) \div d)

\* _calculate_quantity(action, price); size in basis points of the portfolio
_calculate_quantity(size, price) ==
    LET target_value == (AssumedPortfolioValue \div 10000) * size
        quantity == Trunc(target_value, price)
    IN  Max(quantity, 1)

\* order ids: "order-<timestamp to the second>-<random 4 digits>"; two
\* orders placed within one second can draw the same digits.
OrderIds == {"order-1", "order-2"}

\* _place_order: random.random() < 0.9 fills, otherwise the market rejects.
\* rnd is the outcome of the draw, id the generated order id.
_place_order(rnd, id) ==
    IF rnd = "lt"
    THEN [status |-> "filled", order_id |-> id]
    ELSE [status |-> "failed", order_id |-> None]

----------------------------------------------------------------------------
(* src/api/api.py : POST /trade/{symbol}                                   *)

ApiActions == {"BUY", "SELL", "SHORT", "COVER"}

\* sizes a caller passes (basis points): 0 trades the minimum of one share,
\* 10000 (= 1.0) targets the whole assumed portfolio value
ApiSizes == {0, 10000}

\* mutant of PortfolioAfterTrade: the status of the order is not looked at
PortfolioAfterTradeUnchecked(status, symbol, quantity, price, action) ==
    update_position(pm_cash, pm_positions, symbol, quantity, price, action)

\* lines 152-159: the portfolio is updated only when the order was filled
PortfolioAfterTrade(status, symbol, quantity, price, action) ==
    IF status = "filled"
    THEN update_position(pm_cash, pm_positions, symbol, quantity, price, action)
    ELSE [cash |-> pm_cash, positions |-> pm_positions]

\* api.py execute_trade(symbol, action, size) with execute_actions inlined:
\* refresh the price, size the order, place it, record it, apply a fill
api_execute_trade(symbol, action, size, price, rnd, id) ==
    LET quantity == _calculate_quantity(size, price)
        result == _place_order(rnd, id)
        after == PortfolioAfterTrade(result.status, symbol, quantity, price, action)
    IN  /\ Len(order_history) < MaxOrders
        /\ market_prices' = Put(market_prices, symbol, price)
        /\ order_history' = Append(order_history,
                                   [symbol |-> symbol,
                                    action |-> action,
                                    quantity |-> quantity,
                                    price |-> price,
                                    status |-> result.status,
                                    order_id |-> result.order_id])
        /\ pm_cash' = after.cash
        /\ pm_positions' = after.positions
        /\ UNCHANGED <<planVars, simVars, aggVars, riskVars, dataVars>>

ApiTrade ==
    \E symbol \in PmSymbols, action \in ApiActions, size \in ApiSizes :
        \E price \in UpdatedPrices(symbol), rnd \in {"lt", "ge"}, id \in OrderIds :
            api_execute_trade(symbol, action, size, price, rnd, id)

----------------------------------------------------------------------------
(* src/portfolio_manager/portfolio_manager.py : _determine_action_for_symbol *)
(* confidences in percent, sizes in basis points                             *)

\* floor(10000 * value / pv) for value >= 0, pv > 0, by long division so that
\* no intermediate product leaves the machine integers
FractionBp(value, pv) ==
    LET q1 == value \div pv
        r1 == value % pv
        q2 == (r1 * 100) \div pv
        r2 == (r1 * 100) % pv
        q3 == (r2 * 100) \div pv
    IN  q1 * 10000 + q2 * 100 + q3

\* current_size = positions[symbol]['value'] / portfolio_value, to the basis
\* point (portfolio_value # 0)
CurrentSize(pos, symbol, portfolio_value) ==
    IF portfolio_value > 0
    THEN FractionBp(pos[symbol].value, portfolio_value)
    ELSE -FractionBp(pos[symbol].value, -portfolio_value)

\* the division by a zero portfolio_value raises: no decision is returned
ZeroDivisionError == [action |-> "ZeroDivisionError", size |-> 0]

NoDecision == [action |-> None, size |-> 0]

\* mutant of SellDecision: the short threshold is inclusive (>= 0.7)
SellDecisionInclusive(has_position, confidence) ==
    IF has_position
    THEN [action |-> "SELL", size |-> 10000]
    ELSE IF confidence >= 70
         THEN [action |-> "SHORT", size |-> 200 + confidence * 5]
         ELSE [action |-> "HOLD", size |-> 0]

\* lines 130-143: action == 'SELL'
SellDecision(has_position, confidence) ==
    IF has_position
    THEN [action |-> "SELL", size |-> 10000]
    ELSE IF confidence > 70
         THEN [action |-> "SHORT", size |-> 200 + confidence * 5]
         ELSE [action |-> "HOLD", size |-> 0]

\* lines 105-128: action == 'BUY'
BuyDecision(pos, max_positions, symbol, confidence, portfolio_value) ==
    IF symbol \in DOMAIN pos
    THEN IF portfolio_value = 0 THEN ZeroDivisionError
         ELSE LET current_size == CurrentSize(pos, symbol, portfolio_value)
                  target_size == Min(500 + confidence * 15, 2500)
              IN  IF target_size > current_size + 200
                  THEN [action |-> "BUY", size |-> target_size - current_size]
                  ELSE [action |-> "HOLD", size |-> 0]
    ELSE IF Cardinality(DOMAIN pos) < max_positions
         THEN [action |-> "BUY", size |-> 200 + confidence * 8]
         ELSE [action |-> "HOLD", size |-> 0]

\* lines 145-152: action == 'HOLD' (the current size is only put in the reason)
HoldDecision(pos, symbol, portfolio_value) ==
    IF symbol \in DOMAIN pos /\ portfolio_value = 0
    THEN ZeroDivisionError
    ELSE [action |-> "HOLD", size |-> 0]

\* _determine_action_for_symbol(symbol, signal, portfolio_value) -> (action_type, size)
_determine_action_for_symbol(pos, max_positions, symbol, signal, portfolio_value) ==
    CASE signal.action = "BUY" ->
            BuyDecision(pos, max_positions, symbol, signal.confidence, portfolio_value)
      [] signal.action = "SELL" ->
            SellDecision(symbol \in DOMAIN pos, signal.confidence)
      [] signal.action = "HOLD" ->
            HoldDecision(pos, symbol, portfolio_value)
      [] OTHER -> [action |-> "HOLD", size |-> 0]

\* the signals handed to the function: an action and a confidence in percent
PlanConfidences == {50, 70, 71, 90}

PlanSignals == [action : {"BUY", "SELL", "HOLD"}, confidence : PlanConfidences]

\* portfolios the manager can hold when it is asked: the initial one and those
\* left by one or two filled orders (update_position) of 1 or 1000 shares
PlanQuantities == {1, 1000}

PlanStep(S) ==
    {update_position(f.cash, f.positions, s, q, p, a) :
        f \in S, s \in PmSymbols, q \in PlanQuantities, p \in {100}, a \in ApiActions}

PlanPortfolios ==
    LET P0 == {[cash |-> PmInitialCash, positions |-> EmptyDict]}
        P1 == P0 \cup PlanStep(P0)
    IN  P1 \cup PlanStep(P1)

DetermineAction ==
    /\ det_out = NoDecision
    /\ det_out' = _determine_action_for_symbol(
                      pm_positions, pm_max_positions, det_in.symbol, det_in.signal,
                      _get_portfolio_value(pm_cash, pm_positions))
    /\ UNCHANGED <<apiVars, pm_max_positions, det_in, simVars, aggVars, riskVars, dataVars>>

----------------------------------------------------------------------------
(* src/backend/services/risk_manager.py : RiskManager                      *)
(* a signal is [action, confidence, weight]: confidence a rational in      *)
(* [0, 1], weight in tenths (the orchestrator attaches the agent's weight) *)

\* insertion order of the action_confidences dict
ActionOrder == <<"BUY", "SELL", "HOLD">>

NoConsensus == [action |-> None, confidence |-> <<0, 1>>, ticker |-> None]

\* action_confidences[action] after the loop of lines 110-116
RECURSIVE action_confidences(_, _)
action_confidences(trading_signals, action) ==
    IF trading_signals = <<>> THEN <<0, 1>>
    ELSE LET signal == Head(trading_signals)
             rest == action_confidences(Tail(trading_signals), action)
         IN  IF signal.action = action THEN RatAdd(signal.confidence, rest) ELSE rest

\* max(d, key=d.get): the first key, in insertion order, holding the maximum
FirstMax(score) ==
    LET best(i) == \A j \in 1..Len(ActionOrder) :
                       RatLeq(score[ActionOrder[j]], score[ActionOrder[i]])
        i0 == CHOOSE i \in 1..Len(ActionOrder) :
                  best(i) /\ \A j \in 1..(i - 1) : ~best(j)
    IN  ActionOrder[i0]

\* aggregate_signals(trading_signals), for signals of one ticker
aggregate_signals(trading_signals, ticker) ==
    IF trading_signals = <<>>
    THEN [action |-> "HOLD", confidence |-> <<0, 1>>, ticker |-> None]
    ELSE LET score == [a \in {"BUY", "SELL", "HOLD"} |->
                          action_confidences(trading_signals, a)]
             consensus_action == FirstMax(score)
             total_signals == Len(trading_signals)
         IN  [action |-> consensus_action,
              confidence |-> RatDivInt(score[consensus_action], total_signals),
              ticker |-> ticker]

\* calculate_var(portfolio) / portfolio_value: 5% of the value over the value,
\* 0 when the value is 0 (percent)
current_risk_level(total_value) == IF total_value # 0 THEN 5 ELSE 0

\* one signal through the loop body of adjust_signals (lines 65-83)
adjust_signal(signal, level, threshold) ==
    IF level > threshold
    THEN \* risk_factor = min(1.0, level / threshold) = 1.0 here
         IF signal.action = "BUY"
         THEN [signal EXCEPT !.confidence = RatMul(signal.confidence, <<7, 10>>)]
         ELSE IF signal.action = "SELL"
         THEN [signal EXCEPT !.confidence =
                   RatMin(<<19, 20>>, RatMul(signal.confidence, <<6, 5>>))]
         ELSE signal
    ELSE signal

\* adjust_signals(trading_signals, portfolio)
adjust_signals(trading_signals, total_value, threshold) ==
    [i \in 1..Len(trading_signals) |->
        adjust_signal(trading_signals[i], current_risk_level(total_value), threshold)]

\* inputs of the aggregation harness
AggConfidences == {<<3, 5>>, <<7, 10>>, <<4, 5>>}

AggWeights == {4, 10}

AggSignals == [action : {"BUY", "SELL", "HOLD"},
               confidence : AggConfidences,
               weight : AggWeights]

AggInputs == UNION {[1..n -> AggSignals] : n \in 0..MaxSignals}

Aggregate ==
    /\ agg_out = NoConsensus
    /\ agg_out' = aggregate_signals(agg_in, "AAA")
    /\ UNCHANGED <<apiVars, planVars, simVars, agg_in, riskVars, dataVars>>

----------------------------------------------------------------------------
(* src/backend/models/portfolio_manager.py : PortfolioManager              *)
(* cash and values in cents, quantities in hundredths of a share, prices   *)
(* in dollars, avg_price a rational number of dollars                      *)

\* get_portfolio_value
get_portfolio_value(c, pos) ==
    c + SumOver([t \in DOMAIN pos |-> pos[t].quantity * pos[t].last_price], DOMAIN pos)

\* the fields of a trade result that the model keeps
TradeResult(ticker, action, quantity, price, status, reason) ==
    [ticker |-> ticker, action |-> action, quantity |-> quantity,
     price |-> price, status |-> status, reason |-> reason]

\* mutant of BuyTrade: the average price is overwritten by the last price paid
BuyTradeOverwritesAverage(c, pos, ticker, quantity, price) ==
    LET trade_value == quantity * price
    IN  IF c >= trade_value
        THEN [cash |-> c - trade_value,
              positions |->
                  IF ticker \in DOMAIN pos
                  THEN Put(pos, ticker,
                           [quantity |-> pos[ticker].quantity + quantity,
                            avg_price |-> <<price, 1>>,
                            last_price |-> price])
                  ELSE Put(pos, ticker,
                           [quantity |-> quantity,
                            avg_price |-> <<price, 1>>,
                            last_price |-> price]),
              status |-> "SUCCESS", reason |-> None]
        ELSE [cash |-> c, positions |-> pos,
              status |-> "FAILED", reason |-> "Insufficient funds"]

\* execute_trade, action == "BUY" (lines 89-116)
BuyTrade(c, pos, ticker, quantity, price) ==
    LET trade_value == quantity * price
    IN  IF c >= trade_value
        THEN [cash |-> c - trade_value,
              positions |->
                  IF ticker \in DOMAIN pos
                  THEN LET position == pos[ticker]
                           total_quantity == position.quantity + quantity
                           total_value ==
                               RatAdd(RatScale(position.avg_price, position.quantity),
                                      <<trade_value, 1>>)
                       IN  Put(pos, ticker,
                               [quantity |-> total_quantity,
                                avg_price |-> RatDivInt(total_value, total_quantity),
                                last_price |-> price])
                  ELSE Put(pos, ticker,
                           [quantity |-> quantity,
                            avg_price |-> <<price, 1>>,
                            last_price |-> price]),
              status |-> "SUCCESS", reason |-> None]
        ELSE [cash |-> c, positions |-> pos,
              status |-> "FAILED", reason |-> "Insufficient funds"]

\* execute_trade, action == "SELL" (lines 119-138)
SellTrade(c, pos, ticker, quantity, price) ==
    LET trade_value == quantity * price
    IN  IF ticker \in DOMAIN pos /\ pos[ticker].quantity >= quantity
        THEN [cash |-> c + trade_value,
              positions |->
                  IF pos[ticker].quantity - quantity = 0
                  THEN Del(pos, ticker)
                  ELSE Put(pos, ticker,
                           [pos[ticker] EXCEPT !.quantity = @ - quantity,
                                               !.last_price = price]),
              status |-> "SUCCESS", reason |-> None]
        ELSE [cash |-> c, positions |-> pos,
              status |-> "FAILED", reason |-> "Insufficient shares"]

\* execute_trade(ticker, action, quantity, price): the portfolio after the
\* call and the trade result it returns and appends to transaction_history
execute_trade(c, pos, ticker, action, quantity, price) ==
    LET r == CASE action = "BUY" -> BuyTrade(c, pos, ticker, quantity, price)
               [] action = "SELL" -> SellTrade(c, pos, ticker, quantity, price)
               [] OTHER -> [cash |-> c, positions |-> pos,
                            status |-> "FAILED", reason |-> None]
    IN  [cash |-> r.cash, positions |-> r.positions, recorded |-> TRUE,
         result |-> TradeResult(ticker, action, quantity, price, r.status, r.reason)]

\* round(x, 2) of x = n / (100 * d), in hundredths: round-half-even of n / d
RoundHalfEven(n, d) ==
    LET m == Abs(n)
        q == m \div d
        r == m % d
        up == IF 2 * r > d \/ (2 * r = d /\ q % 2 = 1) THEN q + 1 ELSE q
    IN  IF n >= 0 THEN up ELSE -up

\* price used when the ticker is not held (line 171)
MockPrice == 100

\* process_signal(signal), max_position_size = 0.1
process_signal(c, pos, signal) ==
    IF signal.ticker = None \/ signal.action \notin {"BUY", "SELL", "HOLD"}
    THEN [cash |-> c, positions |-> pos, recorded |-> FALSE,
          result |-> TradeResult(None, None, 0, 0, "FAILED", "Invalid signal format")]
    ELSE IF signal.action = "HOLD"
    THEN [cash |-> c, positions |-> pos, recorded |-> FALSE,
          result |-> TradeResult(signal.ticker, "HOLD", 0, 0, "SUCCESS", None)]
    ELSE LET portfolio_value == get_portfolio_value(c, pos)
             price == IF signal.ticker \in DOMAIN pos
                      THEN pos[signal.ticker].last_price ELSE MockPrice
             \* portfolio_value * 0.1 * confidence / price, to 2 decimals
             quantity == RoundHalfEven(portfolio_value * signal.confidence[1],
                                       10 * signal.confidence[2] * price)
         IN  IF quantity <= 0
             THEN [cash |-> c, positions |-> pos, recorded |-> FALSE,
                   result |-> TradeResult(None, None, 0, 0, "FAILED",
                                          "Trade size too small")]
             ELSE execute_trade(c, pos, signal.ticker, signal.action, quantity, price)

----------------------------------------------------------------------------
(* src/simulator/trading_simulator.py : TradingSimulator                   *)

\* PortfolioManager.get_portfolio_state(): cash and total_value are copied,
\* "positions" is the manager's own dict object, not a copy of it
get_portfolio_state(c, pos) ==
    [cash |-> c,
     positions |-> "self.positions",
     total_value |-> get_portfolio_value(c, pos)]

\* the dict a recorded portfolio state's "positions" refers to
Deref(ref) == positions

\* a signal whose "action" key is missing (None) or names no key of
\* action_counts: signal["action"] (lines 72, 111) or action_counts[action]
\* (line 114) raises KeyError, and nothing between the agent and the end of
\* run_simulation_step catches it
RaisesKeyError(trading_signals) ==
    \E i \in 1..Len(trading_signals) : trading_signals[i].action \notin {"BUY", "SELL", "HOLD"}

\* the loop body of run_simulation_step for one ticker (lines 186-216);
\* st = [cash, positions, transactions, signals, raw_signals, trades, raised],
\* input = the market price of the day and the signals the agents return;
\* signals[i] is the "consensus_signal" and raw_signals[i] the "raw_signals"
\* of the i-th entry of step_results["signals"].  Once an
\* exception is raised the rest of the loop is not executed.
ProcessTicker(st, ticker, input, threshold) ==
    LET refreshed ==
            IF ticker \in DOMAIN st.positions
            THEN Put(st.positions, ticker,
                     [st.positions[ticker] EXCEPT !.last_price = input.price])
            ELSE st.positions
        portfolio_state == get_portfolio_state(st.cash, refreshed)
        adjusted_signals ==
            adjust_signals(input.signals, portfolio_state.total_value, threshold)
    IN  IF st.raised # None
        THEN st
        ELSE IF RaisesKeyError(input.signals)
        THEN [st EXCEPT !.positions = refreshed, !.raised = "KeyError"]
        ELSE IF adjusted_signals = <<>>
        THEN [st EXCEPT !.positions = refreshed]
        ELSE LET consensus_signal == aggregate_signals(adjusted_signals, ticker)
                 t == process_signal(st.cash, refreshed, consensus_signal)
             IN  [cash |-> t.cash,
                  positions |-> t.positions,
                  transactions |-> IF t.recorded
                                   THEN Append(st.transactions, t.result)
                                   ELSE st.transactions,
                  signals |-> Append(st.signals, consensus_signal),
                  raw_signals |-> Append(st.raw_signals, input.signals),
                  trades |-> Append(st.trades, t.result),
                  raised |-> None]

RECURSIVE ProcessTickers(_, _, _, _)
ProcessTickers(st, ts, inputs, threshold) ==
    IF ts = <<>> THEN st
    ELSE ProcessTickers(ProcessTicker(st, Head(ts), inputs[Head(ts)], threshold),
                        Tail(ts), inputs, threshold)

\* datetime.weekday(): 0 = Monday ... 5 = Saturday, 6 = Sunday
weekday(d) == d % 7

\* lines 224-229: the next day, weekends skipped
RECURSIVE SkipWeekend(_)
SkipWeekend(d) == IF weekday(d) > 4 THEN SkipWeekend(d + 1) ELSE d

NextTradingDay(d) == SkipWeekend(d + 1)

\* what the market and the agents can deliver for one ticker on one day
SimPrices == {100, 120}

SimSignalLists ==
    { <<>>,
      <<[action |-> "BUY", confidence |-> <<7, 10>>, weight |-> 10]>>,
      <<[action |-> "SELL", confidence |-> <<1, 2>>, weight |-> 10]>>,
      <<[action |-> "SELL", confidence |-> <<1, 1>>, weight |-> 10]>>,
      <<[action |-> "HOLD", confidence |-> <<3, 5>>, weight |-> 4],
        [action |-> "BUY", confidence |-> <<4, 5>>, weight |-> 3]>>,
      \* an agent whose analyze() returns a dict without "action", and an
      \* agent that answers with an action that is none of BUY, SELL, HOLD
      <<[action |-> None, confidence |-> <<7, 10>>, weight |-> 10],
        [action |-> "BUY", confidence |-> <<7, 10>>, weight |-> 10]>>,
      <<[action |-> "BUY", confidence |-> <<7, 10>>, weight |-> 10],
        [action |-> "STRONG_BUY", confidence |-> <<7, 10>>, weight |-> 10]>> }

SimInputs == [price : SimPrices, signals : SimSignalLists]

\* get_performance_metrics has not been called on the current history
NoMetrics == [status |-> "not computed", total_days |-> 0,
              initial |-> 0, final |-> 0, absolute_return |-> 0,
              percentage_return |-> 0, daily_returns |-> <<>>,
              total_trades |-> 0, successful_trades |-> 0, success_rate |-> 0,
              final_positions |-> None]

\* lines 255-256: {"status": "No simulation data available"}
NoSimulationData == [NoMetrics EXCEPT !.status = "No simulation data available"]

\* final_value / initial_value with initial_value = 0 raises (line 267)
MetricsZeroDivision == [NoMetrics EXCEPT !.status = "ZeroDivisionError"]

\* number of trade results with status SUCCESS (lines 283-286)
RECURSIVE CountSuccess(_)
CountSuccess(trades) ==
    IF trades = <<>> THEN 0
    ELSE (IF Head(trades).status = "SUCCESS" THEN 1 ELSE 0) + CountSuccess(Tail(trades))

\* the trade results of all steps of the history, in order
RECURSIVE AllTrades(_)
AllTrades(history) ==
    IF history = <<>> THEN <<>>
    ELSE Head(history).trades \o AllTrades(Tail(history))

\* round(successful_trades / total_trades * 100 if total_trades else 0, 2),
\* in hundredths of a percent
success_rate(successful_trades, total_trades) ==
    IF total_trades # 0
    THEN RoundHalfEven(successful_trades * 10000, total_trades)
    ELSE 0

\* get_performance_metrics(): money in cents, percentages in hundredths of a
\* percent.  volatility and sharpe_ratio are np.std and np.mean of the list
\* daily_returns and of nothing else; the record keeps that list for them.
get_performance_metrics(history) ==
    IF history = <<>> THEN NoSimulationData
    ELSE LET initial_portfolio == history[1].portfolio_before
             final_portfolio == history[Len(history)].portfolio_after
             initial_value == initial_portfolio.total_value
             final_value == final_portfolio.total_value
             daily_values == [i \in 1..Len(history) |->
                                 history[i].portfolio_after.total_value]
             total_trades == Len(AllTrades(history))
             successful_trades == CountSuccess(AllTrades(history))
         IN  IF initial_value = 0
                \/ \E i \in 1..(Len(history) - 1) : daily_values[i] = 0
             THEN MetricsZeroDivision
             ELSE LET pct == RatScale(Rat(final_value - initial_value, initial_value),
                                      10000)
                  IN  [status |-> "ok",
                       total_days |-> Len(history),
                       initial |-> initial_value,
                       final |-> final_value,
                       absolute_return |-> final_value - initial_value,
                       percentage_return |-> RoundHalfEven(pct[1], pct[2]),
                       daily_returns |->
                           [i \in 1..(Len(history) - 1) |->
                               Rat(daily_values[i + 1] - daily_values[i],
                                   daily_values[i])],
                       total_trades |-> total_trades,
                       successful_trades |-> successful_trades,
                       success_rate |-> success_rate(successful_trades, total_trades),
                       final_positions |-> final_portfolio.positions]

\* mutant of PastEndDate: the day after end_date is still simulated
PastEndDateByTwo == current_date > end_date + 1

\* line 170: self.current_date > self.end_date
PastEndDate == current_date > end_date

\* run_simulation_step() on a day of the simulation.  An exception leaves the
\* call before lines 219-229: what the earlier tickers traded stays in the
\* portfolio, the day is not recorded and the date does not advance; it also
\* leaves the loop of run_complete_simulation (lines 242-243), which makes no
\* further call.
run_simulation_step(inputs) ==
    LET portfolio_before == get_portfolio_state(cash, positions)
        st0 == [cash |-> cash, positions |-> positions,
                transactions |-> transaction_history,
                signals |-> <<>>, raw_signals |-> <<>>, trades |-> <<>>,
                raised |-> None]
        st == ProcessTickers(st0, tickers, inputs, risk_threshold)
        step_results ==
            [date |-> current_date,
             portfolio_before |-> portfolio_before,
             signals |-> st.signals,
             raw_signals |-> st.raw_signals,
             trades |-> st.trades,
             portfolio_after |-> get_portfolio_state(st.cash, st.positions)]
    IN  /\ ~PastEndDate
        /\ raised = None
        /\ step_status' = None
        /\ cash' = st.cash
        /\ positions' = st.positions
        /\ transaction_history' = st.transactions
        /\ raised' = st.raised
        /\ IF st.raised = None
           THEN /\ simulation_history' = Append(simulation_history, step_results)
                /\ current_date' = NextTradingDay(current_date)
                /\ metrics' = NoMetrics
                /\ metrics_calls' = 0
           ELSE UNCHANGED <<simulation_history, current_date, metrics, metrics_calls>>
        /\ UNCHANGED <<risk_threshold, tickers, end_date, apiVars, planVars, aggVars,
                       riskVars, dataVars>>

RunSimulationStep ==
    \E inputs \in [{tickers[i] : i \in 1..Len(tickers)} -> SimInputs] :
        run_simulation_step(inputs)

\* mutant of GetPerformanceMetrics: the history is consumed by the call
GetPerformanceMetricsDrains ==
    /\ metrics_calls < MaxMetricsCalls
    /\ metrics' = get_performance_metrics(simulation_history)
    /\ metrics_calls' = metrics_calls + 1
    /\ simulation_history' = <<>>
    /\ UNCHANGED <<cash, positions, transaction_history, risk_threshold, tickers,
                   current_date, end_date, raised, step_status,
                   apiVars, planVars, aggVars, riskVars, dataVars>>

\* get_performance_metrics(): reads self.simulation_history, writes nothing
GetPerformanceMetrics ==
    /\ metrics_calls < MaxMetricsCalls
    /\ metrics' = get_performance_metrics(simulation_history)
    /\ metrics_calls' = metrics_calls + 1
    /\ UNCHANGED <<cash, positions, transaction_history, risk_threshold, tickers,
                   current_date, end_date, simulation_history, raised, step_status,
                   apiVars, planVars, aggVars, riskVars, dataVars>>

\* run_simulation_step() once current_date is past end_date: {"status": "complete"}
SimulationComplete ==
    /\ PastEndDate
    /\ step_status' = "complete"
    /\ UNCHANGED <<cash, positions, transaction_history, risk_threshold, tickers,
                   current_date, end_date, simulation_history, metrics, metrics_calls,
                   raised, apiVars, planVars, aggVars, riskVars, dataVars>>

----------------------------------------------------------------------------
(* src/risk_manager/risk_manager.py : RiskManager                          *)
(* confidences, risks and size limits are rationals, portfolio values are  *)
(* whole dollars, value_at_risk_confidence is in percent                   *)

\* the risk returned while the history is too short (line 177)
DefaultRisk == <<1, 10>>

\* len(self.portfolio_history) < 30 (line 176)
MinRiskHistory == 30

\* only the last 100 values are kept (lines 225-226)
MaxRiskHistory == 100

\* np.diff(h) / h[:-1]
DailyReturns(h) == [i \in 1..(Len(h) - 1) |-> Rat(h[i + 1] - h[i], h[i])]

\* np.percentile(a, q), q in percent: linear interpolation between the two
\* order statistics around position q/100 * (len(a) - 1)
Percentile(a, q) ==
    LET sorted == SortSeq(a, RatLess)
        pos == q * (Len(a) - 1)
        lo == pos \div 100
        rem == pos % 100
    IN  IF rem = 0 THEN sorted[lo + 1]
        ELSE RatAdd(sorted[lo + 1],
                    RatMul(Rat(rem, 100),
                           RatAdd(sorted[lo + 2], RatNeg(sorted[lo + 1]))))

\* _calculate_portfolio_risk()
_calculate_portfolio_risk(h, var_confidence) ==
    IF Len(h) < MinRiskHistory
    THEN DefaultRisk
    ELSE LET returns == DailyReturns(h)
             var == RatNeg(Percentile(returns, 100 - var_confidence))
         IN  RatMin(RatScale(var, 10), <<1, 1>>)

\* mutant of risk_scaling_factor: the factor is computed without the guard
RiskScalingUnguarded(portfolio_risk, max_portfolio_risk) ==
    RatDiv(max_portfolio_risk, portfolio_risk)

\* lines 133-135: risk_scaling_factor
risk_scaling_factor(portfolio_risk, max_portfolio_risk) ==
    IF RatLess(max_portfolio_risk, portfolio_risk)
    THEN RatDiv(max_portfolio_risk, portfolio_risk)
    ELSE <<1, 1>>

\* _would_exceed_position_limit(symbol): positions are assumed equally sized
_would_exceed_position_limit(cur, config, symbol) ==
    LET num_positions == Cardinality(DOMAIN cur)
    IN  IF num_positions >= config.max_positions THEN TRUE
        ELSE IF symbol \notin DOMAIN cur
        THEN RatLess(config.max_position_size, <<1, num_positions + 1>>)
        ELSE FALSE

\* the sum of the confidences the agents of S give to one action of a symbol
RECURSIVE SymbolConfidence(_, _, _, _)
SymbolConfidence(agent_signals, S, symbol, action) ==
    IF S = {} THEN <<0, 1>>
    ELSE LET a == CHOOSE x \in S : TRUE
             rest == SymbolConfidence(agent_signals, S \ {a}, symbol, action)
         IN  IF agent_signals[a][symbol].action = action
             THEN RatAdd(agent_signals[a][symbol].confidence, rest)
             ELSE rest

\* _aggregate_signals_by_symbol(agent_signals); agent_signals maps an agent
\* name to its dict symbol -> [action, confidence]
_aggregate_signals_by_symbol(agent_signals) ==
    LET symbols == UNION {DOMAIN agent_signals[a] : a \in DOMAIN agent_signals}
    IN  [symbol \in symbols |->
            LET agents == {a \in DOMAIN agent_signals : symbol \in DOMAIN agent_signals[a]}
                num_agents == Cardinality(agents)
                confidences ==
                    [action \in {"BUY", "SELL", "HOLD"} |->
                        RatDivInt(SymbolConfidence(agent_signals, agents, symbol, action),
                                  num_agents)]
                action == FirstMax(confidences)
            IN  [action |-> action,
                 confidence |-> confidences[action],
                 buy_confidence |-> confidences["BUY"],
                 sell_confidence |-> confidences["SELL"],
                 hold_confidence |-> confidences["HOLD"]]]

\* the loop body of _apply_risk_constraints for one symbol (lines 140-161)
adjusted_signal(signal, symbol, factor, cur, config) ==
    IF signal.action = "BUY"
       /\ (symbol \in DOMAIN cur \/ _would_exceed_position_limit(cur, config, symbol))
    THEN [signal EXCEPT !.action = "HOLD",
                        !.confidence = RatMax(signal.hold_confidence, <<1, 2>>)]
    ELSE [signal EXCEPT !.confidence = RatMul(signal.confidence, factor)]

\* _apply_risk_constraints(aggregated_signals), portfolio_risk being the
\* value _calculate_portfolio_risk() returns at line 130; the record keeps
\* the two locals the method writes into every signal's reasoning
_apply_risk_constraints(aggregated_signals, portfolio_risk, cur, config) ==
    LET factor == risk_scaling_factor(portfolio_risk, config.max_portfolio_risk)
    IN  [signals |-> [symbol \in DOMAIN aggregated_signals |->
                         adjusted_signal(aggregated_signals[symbol], symbol,
                                         factor, cur, config)],
         portfolio_risk |-> portfolio_risk,
         risk_scaling_factor |-> factor]

\* process_signals(agent_signals)
process_signals(agent_signals, portfolio_risk, cur, config) ==
    _apply_risk_constraints(_aggregate_signals_by_symbol(agent_signals),
                            portfolio_risk, cur, config)

\* process_signals has not been called
NoRiskOutput == [signals |-> EmptyDict,
                 portfolio_risk |-> <<0, 1>>,
                 risk_scaling_factor |-> <<0, 1>>]

\* mutant of updated_history: the first 100 values are kept, not the last
UpdatedHistoryKeepsOldest(h, portfolio_value) ==
    LET appended == Append(h, portfolio_value)
    IN  IF Len(appended) > MaxRiskHistory
        THEN SubSeq(appended, 1, MaxRiskHistory)
        ELSE appended

\* update_portfolio_state(portfolio_value, positions): the history after the call
updated_history(h, portfolio_value) ==
    LET appended == Append(h, portfolio_value)
    IN  IF Len(appended) > MaxRiskHistory
        THEN SubSeq(appended, Len(appended) - MaxRiskHistory + 1, Len(appended))
        ELSE appended

\* inputs: the agents of api.py, the signals they return, the values and
\* position sizes the caller reports
RiskAgents == {"fundamental", "technical"}

RiskSymbols == {"AAA", "BBB"}

RiskSignals == [action : {"BUY", "SELL", "HOLD"}, confidence : {<<3, 5>>}]

RiskValues == {100, 50}

RiskPositions == {EmptyDict, [s \in {"BBB"} |-> 5]}

RiskConfigs == [max_position_size : {<<1, 10>>, <<1, 2>>},
                max_portfolio_risk : {<<1, 10>>, <<1, 5>>},
                var_confidence : {95},
                max_positions : {1, 2}]

\* portfolio histories a manager can have been given: n values going
\* a, b, a, b, ...
Alternating(n, a, b) == [i \in 1..n |-> IF i % 2 = 1 THEN a ELSE b]

\* n values rising by one a day from a
Rising(n, a) == [i \in 1..n |-> a + i - 1]

RiskHistories ==
    {Alternating(n, 100, b) : n \in {0, 29, 30}, b \in {100, 98, 50}}
        \cup {Rising(30, 100)}
        \cup {Alternating(n, 100, 98) : n \in {MaxRiskHistory - 1, MaxRiskHistory}}

\* GET /signals/{symbol}: every agent's signal for the symbol goes through
\* process_signals
ProcessSignals ==
    \E portfolio_risk \in {_calculate_portfolio_risk(portfolio_history,
                                                     rm_config.var_confidence)},
       symbol \in RiskSymbols, sigs \in [RiskAgents -> RiskSignals] :
        /\ rm_out' = process_signals([a \in RiskAgents |-> (symbol :> sigs[a])],
                                     portfolio_risk, current_positions, rm_config)
        /\ UNCHANGED <<rm_config, portfolio_history, current_positions, risk_updates,
                       apiVars, planVars, simVars, aggVars, dataVars>>

UpdatePortfolioState ==
    \E portfolio_value \in RiskValues, positions_arg \in RiskPositions :
        /\ risk_updates < MaxUpdates
        /\ portfolio_history' = updated_history(portfolio_history, portfolio_value)
        /\ current_positions' = positions_arg
        /\ risk_updates' = risk_updates + 1
        /\ UNCHANGED <<rm_config, rm_out, apiVars, planVars, simVars, aggVars, dataVars>>

----------------------------------------------------------------------------
(* src/simulator/trading_simulator.py : _get_market_data_for_date, over    *)
(* src/backend/services/market_data.py : MarketDataProvider                *)
(* The values of the mock data are random; the model keeps the dates the   *)
(* data carry.                                                             *)

\* timedelta(days=365) (line 81)
HistoryLookback == 365

\* get_news_sentiment(ticker, days=7)
NewsDays == 7

\* get_historical_prices(ticker, start_date, end_date): the dates of the
\* price points it returns, in ascending order and so kept as a set: a point
\* for start_date, then one for every later weekday up to end_date
get_historical_prices(start_date, end) ==
    {d \in start_date..end : d = start_date \/ weekday(d) <= 4}

\* historical_data[-n:]: the n latest points
LastN(dates, n) == {d \in dates : Cardinality({x \in dates : x > d}) < n}

\* get_news_sentiment(ticker): 3 to 8 headlines, each dated
\* datetime.now() - timedelta(days=random.randint(0, days)); the sets of
\* dates the headlines can carry
HeadlineDates(today) == (SUBSET ((today - NewsDays)..today)) \ {{}}

\* lines 81-84: the price history fetched for a simulated day
historical_data_for(date) == get_historical_prices(date - HistoryLookback, date)

\* _get_market_data_for_date(ticker, current_date), given the price history
\* fetched and the headline dates drawn; fundamentals carry
\* last_updated = datetime.now()
_get_market_data_for_date(ticker, date, historical_data, today, headline_dates) ==
    [ticker |-> ticker,
     date |-> date,
     historical_data |-> historical_data,
     fundamentals |-> today,
     news_sentiment |-> headline_dates]

NoMarketData == [ticker |-> None, date |-> 0, historical_data |-> {},
                 fundamentals |-> 0, news_sentiment |-> {}]

\* days simulated and days the program can be run on
DataDates == {1000, 1001, 1005}

ClockDates == {1000, 1008, 1030}

GetMarketData ==
    /\ md_out = NoMarketData
    /\ \E recent \in {LastN(historical_data_for(md_in.current_date), 30)},
          headline_dates \in HeadlineDates(now) :
          md_out' = _get_market_data_for_date(md_in.ticker, md_in.current_date,
                                              recent, now, headline_dates)
    /\ UNCHANGED <<now, md_in, apiVars, planVars, simVars, aggVars, riskVars>>

----------------------------------------------------------------------------
(* Initial states and specifications *)

PmInit ==
    /\ pm_cash = PmInitialCash
    /\ pm_positions = EmptyDict
    /\ market_prices = EmptyDict
    /\ order_history = <<>>

PlanIdle ==
    /\ pm_max_positions = 1
    /\ det_in = [symbol |-> None, signal |-> [action |-> None, confidence |-> 0]]
    /\ det_out = NoDecision

SimIdle ==
    /\ cash = 0
    /\ positions = EmptyDict
    /\ transaction_history = <<>>
    /\ risk_threshold = 50
    /\ tickers = <<>>
    /\ current_date = 0
    /\ end_date = 0
    /\ simulation_history = <<>>
    /\ metrics = NoMetrics
    /\ metrics_calls = 0
    /\ raised = None
    /\ step_status = None

AggIdle ==
    /\ agg_in = <<>>
    /\ agg_out = NoConsensus

RiskIdle ==
    /\ rm_config = [max_position_size |-> <<1, 10>>, max_portfolio_risk |-> <<1, 10>>,
                    var_confidence |-> 95, max_positions |-> 1]
    /\ portfolio_history = <<>>
    /\ current_positions = EmptyDict
    /\ risk_updates = 0
    /\ rm_out = NoRiskOutput

\* the manual-trade API on a freshly constructed system
DataIdle ==
    /\ now = 0
    /\ md_in = [ticker |-> None, current_date |-> 0]
    /\ md_out = NoMarketData

InitApi == PmInit /\ PlanIdle /\ SimIdle /\ AggIdle /\ RiskIdle /\ DataIdle

NextApi == ApiTrade

SpecApi == InitApi /\ [][NextApi]_vars

\* _determine_action_for_symbol on the portfolios of PlanPortfolios
InitPlan ==
    /\ \E f \in PlanPortfolios : pm_cash = f.cash /\ pm_positions = f.positions
    /\ market_prices = EmptyDict
    /\ order_history = <<>>
    /\ pm_max_positions \in {1, 2}
    /\ det_in \in [symbol : PmSymbols, signal : PlanSignals]
    /\ det_out = NoDecision
    /\ SimIdle /\ AggIdle /\ RiskIdle /\ DataIdle

NextPlan == DetermineAction

SpecPlan == InitPlan /\ [][NextPlan]_vars

\* aggregate_signals on the signal lists of AggInputs
InitAgg ==
    /\ PmInit /\ PlanIdle /\ SimIdle /\ RiskIdle /\ DataIdle
    /\ agg_in \in AggInputs
    /\ agg_out = NoConsensus

NextAgg == Aggregate

SpecAgg == InitAgg /\ [][NextAgg]_vars

\* the backtest: TradingSimulator(initial_capital, risk_threshold) followed by
\* configure_simulation(tickers, start_date, end_date)
SimCapitals == {10000000, 0}

SimThresholds == {50, 4}

SimTickerLists == {<<"AAA">>, <<"AAA", "BBB">>}

SimStartDates == {3, 5}

InitSim ==
    /\ PmInit /\ PlanIdle /\ AggIdle /\ RiskIdle /\ DataIdle
    /\ cash \in SimCapitals
    /\ positions = EmptyDict
    /\ transaction_history = <<>>
    /\ risk_threshold \in SimThresholds
    /\ tickers \in SimTickerLists
    /\ current_date \in SimStartDates
    /\ end_date \in {current_date + k : k \in 0..MaxDays}
    /\ simulation_history = <<>>
    /\ metrics = NoMetrics
    /\ metrics_calls = 0
    /\ raised = None
    /\ step_status = None

NextSim == RunSimulationStep \/ SimulationComplete \/ GetPerformanceMetrics

SpecSim == InitSim /\ [][NextSim]_vars

\* the RiskManager of the signal route, on the states update_portfolio_state
\* can have left it in
InitRisk ==
    /\ PmInit /\ PlanIdle /\ SimIdle /\ AggIdle /\ DataIdle
    /\ rm_config \in RiskConfigs
    /\ portfolio_history \in RiskHistories
    /\ current_positions \in RiskPositions
    /\ risk_updates = 0
    /\ rm_out = NoRiskOutput

NextRisk == ProcessSignals \/ UpdatePortfolioState

SpecRisk == InitRisk /\ [][NextRisk]_vars

\* _get_market_data_for_date for a ticker and a simulated day, on a program
\* run on the day now
InitData ==
    /\ PmInit /\ PlanIdle /\ SimIdle /\ AggIdle /\ RiskIdle
    /\ now \in ClockDates
    /\ md_in \in [ticker : {"AAA", "BBB"}, current_date : DataDates]
    /\ md_out = NoMarketData

NextData == GetMarketData

SpecData == InitData /\ [][NextData]_vars

----------------------------------------------------------------------------
(* Claims *)

\* the step appends an order to the engine's order history
OrderPlaced == Len(order_history') = Len(order_history) + 1

\* the order appended by the step
NewOrder == order_history'[Len(order_history')]

LastOrder == order_history[Len(order_history)]

\* the step appends a snapshot to the simulation history
DayRecorded == Len(simulation_history') = Len(simulation_history) + 1

NewSnapshot == simulation_history'[Len(simulation_history')]

\* total_value = cash + sum of quantity * last_price over the positions the
\* recorded portfolio state holds
StateConserved(p) ==
    LET pos == Deref(p.positions)
    IN  p.total_value =
            p.cash + SumOver([t \in DOMAIN pos |-> pos[t].quantity * pos[t].last_price],
                             DOMAIN pos)

\* C1: every snapshot of the simulation history, in its portfolio_before and
\* in its portfolio_after, has total_value = cash + sum(quantity * last_price).
C1_SnapshotValueConserved ==
    \A i \in 1..Len(simulation_history) :
        /\ StateConserved(simulation_history[i].portfolio_before)
        /\ StateConserved(simulation_history[i].portfolio_after)

\* C2: a BUY that was filled and applied never leaves cash below zero.
C2_FilledBuyKeepsCashNonNegative ==
    (/\ order_history # <<>>
     /\ LastOrder.action = "BUY"
     /\ LastOrder.status = "filled") => pm_cash >= 0

\* C3: a BUY whose cost quantity * price exceeds the available cash fails and
\* leaves cash and every position as they were.
C3_UnaffordableBuyFails ==
    [][(/\ OrderPlaced
        /\ NewOrder.action = "BUY"
        /\ NewOrder.quantity * NewOrder.price > pm_cash)
       => (/\ NewOrder.status # "filled"
           /\ pm_cash' = pm_cash
           /\ pm_positions' = pm_positions)]_vars

\* C4: a SELL of a symbol that is not held, or of more shares than are held,
\* leaves cash and all positions unchanged (no cash for shares not held).
C4_UncoveredSellChangesNothing ==
    [][(/\ OrderPlaced
        /\ NewOrder.action = "SELL"
        /\ \/ NewOrder.symbol \notin DOMAIN pm_positions
           \/ pm_positions[NewOrder.symbol].quantity < NewOrder.quantity)
       => (/\ pm_cash' = pm_cash
           /\ pm_positions' = pm_positions)]_vars

\* C5: every entry of the positions map has a non-zero quantity.
C5_NoZeroQuantityPosition ==
    \A s \in DOMAIN pm_positions : pm_positions[s].quantity # 0

\* C6: an order the execution engine rejects (status failed) changes neither
\* cash nor any position.
C6_RejectedOrderLeavesPortfolio ==
    [][(OrderPlaced /\ NewOrder.status = "failed")
       => (pm_cash' = pm_cash /\ pm_positions' = pm_positions)]_vars

\* a rejected order arrived at a portfolio that holds a position
C6_Witness ==
    /\ order_history # <<>>
    /\ LastOrder.status = "failed"
    /\ LastOrder.symbol \in DOMAIN pm_positions
    /\ LastOrder.action \in {"SELL", "COVER"}

\* value of the successful trades of one kind in a list of trade results
RECURSIVE TradedValue(_, _)
TradedValue(trades, action) ==
    IF trades = <<>> THEN 0
    ELSE (IF Head(trades).action = action /\ Head(trades).status = "SUCCESS"
          THEN Head(trades).quantity * Head(trades).price ELSE 0)
         + TradedValue(Tail(trades), action)

\* C7: a filled BUY of qty at price p deducts qty * p from cash; on a held
\* symbol the quantity becomes old_qty + qty and the average cost
\* (old_qty * old_avg + qty * p) / (old_qty + qty); on a symbol not held the
\* position is created with quantity qty and average cost p.
C7_FilledBuyWeightedAverage ==
    [][DayRecorded =>
        /\ cash' = cash - TradedValue(NewSnapshot.trades, "BUY")
                        + TradedValue(NewSnapshot.trades, "SELL")
        /\ \A i \in 1..Len(NewSnapshot.trades) :
             LET tr == NewSnapshot.trades[i]
                 t == tr.ticker
             IN  (tr.action = "BUY" /\ tr.status = "SUCCESS") =>
                    /\ t \in DOMAIN positions'
                    /\ IF t \in DOMAIN positions
                       THEN /\ positions'[t].quantity = positions[t].quantity + tr.quantity
                            /\ positions'[t].avg_price =
                                 RatDivInt(
                                   RatAdd(RatScale(positions[t].avg_price,
                                                   positions[t].quantity),
                                          <<tr.quantity * tr.price, 1>>),
                                   positions[t].quantity + tr.quantity)
                       ELSE /\ positions'[t].quantity = tr.quantity
                            /\ positions'[t].avg_price = <<tr.price, 1>>]_vars

\* the last day bought more of a held ticker at a price other than its cost
C7_Witness ==
    /\ Len(simulation_history) >= 2
    /\ \E i \in 1..Len(simulation_history[Len(simulation_history)].trades) :
         LET tr == simulation_history[Len(simulation_history)].trades[i]
         IN  /\ tr.action = "BUY" /\ tr.status = "SUCCESS"
             /\ tr.ticker \in DOMAIN positions
             /\ positions[tr.ticker].quantity > tr.quantity
             /\ positions[tr.ticker].avg_price # <<tr.price, 1>>
             /\ positions[tr.ticker].avg_price # <<MockPrice, 1>>

\* C8: a filled SHORT of q shares at price p creates a position of -q on a
\* symbol not held, makes a negative position more negative by q, and
\* increases cash by q * p in both cases.
C8_FilledShortCreditsCash ==
    [][(/\ OrderPlaced
        /\ NewOrder.action = "SHORT"
        /\ NewOrder.status = "filled")
       => LET s == NewOrder.symbol
              q == NewOrder.quantity
          IN  /\ pm_cash' = pm_cash + q * NewOrder.price
              /\ s \in DOMAIN pm_positions'
              /\ s \notin DOMAIN pm_positions => pm_positions'[s].quantity = -q
              /\ (s \in DOMAIN pm_positions /\ pm_positions[s].quantity < 0)
                    => pm_positions'[s].quantity = pm_positions[s].quantity - q]_vars

\* two filled SHORT orders of one symbol in a row
C8_Witness ==
    /\ Len(order_history) >= 2
    /\ LET a == order_history[Len(order_history) - 1]
           b == LastOrder
       IN  /\ a.action = "SHORT" /\ a.status = "filled"
           /\ b.action = "SHORT" /\ b.status = "filled"
           /\ a.symbol = b.symbol
           /\ b.symbol \in DOMAIN pm_positions
           /\ pm_positions[b.symbol].quantity = -(a.quantity + b.quantity)
           /\ pm_cash > PmInitialCash

\* C9: a SELL signal on a symbol with no open position becomes SHORT only
\* when its confidence is strictly above 0.7; at 0.7 and below it is HOLD
\* with size 0.
C9_ShortOnlyAboveThreshold ==
    (/\ det_out # NoDecision
     /\ det_in.signal.action = "SELL"
     /\ det_in.symbol \notin DOMAIN pm_positions)
    => IF det_in.signal.confidence > 70
       THEN det_out.action = "SHORT"
       ELSE det_out = [action |-> "HOLD", size |-> 0]

\* a SELL at exactly 0.7 on a symbol not held was decided
C9_Witness ==
    /\ det_out.action = "HOLD"
    /\ det_in.signal.action = "SELL"
    /\ det_in.signal.confidence = 70
    /\ det_in.symbol \notin DOMAIN pm_positions

\* accumulated confidence * weight of the signals with the given action
RECURSIVE WeightedScore(_, _)
WeightedScore(signals, action) ==
    IF signals = <<>> THEN <<0, 1>>
    ELSE LET rest == WeightedScore(Tail(signals), action)
         IN  IF Head(signals).action = action
             THEN RatAdd(RatScale(Head(signals).confidence, Head(signals).weight), rest)
             ELSE rest

RECURSIVE TotalWeight(_)
TotalWeight(signals) ==
    IF signals = <<>> THEN 0 ELSE Head(signals).weight + TotalWeight(Tail(signals))

\* C10: for a non-empty list of signals the consensus action is the one with
\* the largest accumulated confidence * weight, and the consensus confidence
\* is that accumulated value divided by the total weight.
C10_WeightedConsensus ==
    (agg_out # NoConsensus /\ agg_in # <<>>)
    => /\ \A a \in {"BUY", "SELL", "HOLD"} :
            RatLeq(WeightedScore(agg_in, a), WeightedScore(agg_in, agg_out.action))
       /\ agg_out.confidence =
            RatDivInt(WeightedScore(agg_in, agg_out.action), TotalWeight(agg_in))

\* HOLD holds the largest accumulated value, both counted as the code counts
\* (confidence) and weighted (confidence * weight), and another action ties it
HoldTiesForLargest(signals) ==
    /\ \A a \in {"BUY", "SELL", "HOLD"} :
          /\ RatLeq(action_confidences(signals, a), action_confidences(signals, "HOLD"))
          /\ RatLeq(WeightedScore(signals, a), WeightedScore(signals, "HOLD"))
    /\ \E a \in {"BUY", "SELL"} :
          /\ action_confidences(signals, a) = action_confidences(signals, "HOLD")
          /\ WeightedScore(signals, a) = WeightedScore(signals, "HOLD")

\* C11: when HOLD ties with another action for the largest accumulated value,
\* the consensus action is HOLD (the documented tie rule), whatever the
\* position of the actions in the action map.
C11_TieResolvesToHold ==
    (agg_out # NoConsensus /\ agg_in # <<>> /\ HoldTiesForLargest(agg_in))
    => agg_out.action = "HOLD"

\* C12: the risk scaling factor is 1 whenever the risk estimate is at most
\* max_portfolio_risk, the boundary included, and max_portfolio_risk divided
\* by the risk estimate, a value of at most 1, whenever the estimate is larger.
C12_RiskScalingFactor ==
    [][(rm_out' # rm_out) =>
        LET risk_estimate == _calculate_portfolio_risk(portfolio_history,
                                                       rm_config.var_confidence)
            max_risk == rm_config.max_portfolio_risk
            factor == rm_out'.risk_scaling_factor
        IN  IF RatLeq(risk_estimate, max_risk)
            THEN factor = <<1, 1>>
            ELSE /\ factor[1] * risk_estimate[1] * max_risk[2]
                        = max_risk[1] * factor[2] * risk_estimate[2]
                 /\ RatLeq(factor, <<1, 1>>)]_vars

\* the factor was computed on the boundary from a history long enough for
\* the value-at-risk estimate
C12_Witness ==
    /\ rm_out # NoRiskOutput
    /\ Len(portfolio_history) >= MinRiskHistory
    /\ rm_out.portfolio_risk = rm_config.max_portfolio_risk
    /\ rm_out.risk_scaling_factor = <<1, 1>>

LastSnapshot == simulation_history[Len(simulation_history)]

\* C13: a BUY consensus that would put the position's share of the total
\* portfolio value above max_position_size (0.1 in process_signal) is turned
\* into a HOLD: after a day on which the only ticker was bought, its position
\* is worth at most a tenth of the portfolio.
C13_BuyWithinPositionLimit ==
    (/\ simulation_history # <<>>
     /\ Len(tickers) = 1
     /\ \E i \in 1..Len(LastSnapshot.trades) :
           /\ LastSnapshot.trades[i].action = "BUY"
           /\ LastSnapshot.trades[i].status = "SUCCESS")
    => \A t \in DOMAIN positions :
           10 * positions[t].quantity * positions[t].last_price
               <= get_portfolio_value(cash, positions)

\* C14: end to end, with initial capital 100000, an empty portfolio, one
\* ticker priced at 100 and a BUY consensus of confidence 0.7, the first
\* simulated day buys exactly 76 shares: cash 92400, a position of quantity
\* 76 and average cost 100.
C14_EndToEndBuy ==
    (/\ Len(simulation_history) = 1
     /\ Len(tickers) = 1
     /\ LastSnapshot.portfolio_before.cash = 10000000
     /\ LastSnapshot.portfolio_before.total_value = 10000000
     /\ LastSnapshot.signals =
            <<[action |-> "BUY", confidence |-> <<7, 10>>, ticker |-> tickers[1]]>>
     /\ Len(LastSnapshot.trades) = 1
     /\ LastSnapshot.trades[1].price = 100)
    => /\ cash = 9240000
       /\ DOMAIN positions = {tickers[1]}
       /\ positions[tickers[1]].quantity = 7600
       /\ positions[tickers[1]].avg_price = <<100, 1>>

\* C15: no simulated day is a Saturday or a Sunday: the date of every
\* snapshot is a weekday, also when start_date falls on a weekend (the first
\* simulated day is then the following Monday).
C15_NoWeekendDay ==
    \A i \in 1..Len(simulation_history) : weekday(simulation_history[i].date) <= 4

\* C16: no look-ahead: every datum handed to the signal agents for a
\* simulated day d (prices, fundamentals, news) is dated on or before d.
C16_NoLookAhead ==
    md_out # NoMarketData =>
        /\ \A d \in md_out.historical_data : d <= md_out.date
        /\ md_out.fundamentals <= md_out.date
        /\ \A d \in md_out.news_sentiment : d <= md_out.date

RECURSIVE CountOrders(_)
CountOrders(trades) ==
    IF trades = <<>> THEN 0
    ELSE (IF Head(trades).action \in {"BUY", "SELL"} THEN 1 ELSE 0)
         + CountOrders(Tail(trades))

RECURSIVE CountFilled(_)
CountFilled(trades) ==
    IF trades = <<>> THEN 0
    ELSE (IF Head(trades).action \in {"BUY", "SELL"} /\ Head(trades).status = "SUCCESS"
          THEN 1 ELSE 0)
         + CountFilled(Tail(trades))

\* every trade result of the history is an executed order or a HOLD
OnlyOrdersAndHolds(history) ==
    \A i \in 1..Len(history) : \A j \in 1..Len(history[i].trades) :
        history[i].trades[j].action \in {"BUY", "SELL", "HOLD"}

\* C18: the reported success rate is the number of filled orders divided by
\* the number of orders attempted over the whole history (in percent, to two
\* decimals), 0 when no order was attempted; a HOLD outcome counts neither as
\* an order nor as a success.
C18_SuccessRateCountsOrders ==
    (metrics.status = "ok" /\ OnlyOrdersAndHolds(simulation_history))
    => LET orders == CountOrders(AllTrades(simulation_history))
           filled == CountFilled(AllTrades(simulation_history))
       IN  metrics.success_rate =
               IF orders = 0 THEN 0 ELSE RoundHalfEven(filled * 10000, orders)

\* C19: an invalid configuration (initial_capital <= 0) is rejected before
\* the backtest loop starts: no snapshot is ever recorded for it, so the
\* first snapshot of any history starts from a positive capital.
C19_InvalidConfigurationRejected ==
    simulation_history # <<>>
    => /\ simulation_history[1].portfolio_before.cash > 0
       /\ simulation_history[1].portfolio_before.total_value > 0

\* a recorded portfolio state with its positions read through the reference
Recorded(p) ==
    [cash |-> p.cash, positions |-> Deref(p.positions), total_value |-> p.total_value]

\* C20: a snapshot is immutable once recorded: the cash, positions and
\* total_value stored in its portfolio_before and portfolio_after are not
\* changed by any later trade, price refresh or simulated day.
C20_SnapshotImmutable ==
    [][\A i \in 1..Len(simulation_history) :
          /\ Len(simulation_history') >= i
          /\ Recorded(simulation_history[i].portfolio_before)'
                = Recorded(simulation_history[i].portfolio_before)
          /\ Recorded(simulation_history[i].portfolio_after)'
                = Recorded(simulation_history[i].portfolio_after)]_vars

\* C21: a malformed signal (no action, or an action that is none of BUY, SELL
\* and HOLD) is dropped and the aggregation goes on with the others: no
\* run_simulation_step call is left by an exception, so no day and no run is
\* aborted by a signal.
C21_MalformedSignalDropped ==
    raised = None

\* C22: in every (day, ticker) iteration the signals are aggregated first and
\* the risk adjustment is applied to the one consensus signal: each recorded
\* consensus is the risk-adjusted aggregate of the raw signals of its entry,
\* for one of the risk levels the manager can compute.
C22_AggregateThenAdjust ==
    \A i \in 1..Len(simulation_history) :
        \A j \in 1..Len(simulation_history[i].signals) :
            \E total_value \in {0, 1} :
                simulation_history[i].signals[j] =
                    adjust_signal(
                        aggregate_signals(simulation_history[i].raw_signals[j],
                                          simulation_history[i].signals[j].ticker),
                        current_risk_level(total_value), risk_threshold)

\* C23: a SELL consensus for a ticker that is held is a full exit: when the
\* day's SELL of the ticker succeeds, the quantity sold is the whole quantity
\* held before the day and the position is gone afterwards.
C23_SellIsFullExit ==
    [][DayRecorded =>
          \A k \in 1..Len(NewSnapshot.trades) :
              LET trade == NewSnapshot.trades[k]
              IN  (/\ trade.action = "SELL"
                   /\ trade.status = "SUCCESS"
                   /\ trade.ticker \in DOMAIN positions)
                  => /\ trade.quantity = positions[trade.ticker].quantity
                     /\ trade.ticker \notin DOMAIN positions']_vars

\* C24: the quantity of every order is a positive integer, equal to
\* max(1, floor(portfolio_value * size_fraction / price)) for the size the
\* caller asked for, where portfolio_value is the total value the portfolio
\* has when the order is sized.
C24_QuantityFromPortfolioValue ==
    [][OrderPlaced =>
          \E size \in ApiSizes :
              LET portfolio_value == _get_portfolio_value(pm_cash, pm_positions)
              IN  NewOrder.quantity =
                      Max(1, Trunc(portfolio_value * (size \div 100),
                                   100 * NewOrder.price))]_vars

\* C25: for every BUY the manager decides, the position's current fraction of
\* the portfolio value plus the size given to the BUY is at most the
\* max_position_size of the configuration, whichever value is configured,
\* and for a symbol not yet held the size is 0.02 + confidence * 0.08 unless
\* that cap makes it smaller.
C25_BuyWithinMaxPositionSize ==
    det_out.action = "BUY" =>
        \A config \in RiskConfigs :
            LET max_position_size ==
                    (10000 * config.max_position_size[1]) \div config.max_position_size[2]
                held == det_in.symbol \in DOMAIN pm_positions
                current_size ==
                    IF held
                    THEN CurrentSize(pm_positions, det_in.symbol,
                                     _get_portfolio_value(pm_cash, pm_positions))
                    ELSE 0
            IN  /\ current_size + det_out.size <= max_position_size
                /\ ~held => det_out.size =
                                Min(200 + det_in.signal.confidence * 8, max_position_size)

\* the date configure_simulation was given as start_date: the date of the
\* first recorded day, or the current date while no day is recorded
StartDate ==
    IF simulation_history = <<>> THEN current_date ELSE simulation_history[1].date

\* run_complete_simulation is over: its loop ended or an exception left it
RunOver == current_date > end_date \/ raised # None

\* C26: run_complete_simulation records the days in strictly increasing date
\* order and none after end_date, and when it is over the recorded days are
\* exactly the weekdays of [start_date, end_date], one snapshot for each.
C26_OneSnapshotPerWeekday ==
    /\ \A i, j \in 1..Len(simulation_history) :
           i < j => simulation_history[i].date < simulation_history[j].date
    /\ \A i \in 1..Len(simulation_history) : simulation_history[i].date <= end_date
    /\ RunOver =>
           {simulation_history[i].date : i \in 1..Len(simulation_history)}
               = {d \in StartDate..end_date : weekday(d) <= 4}

\* C27: order ids are unique: every recorded order, filled or rejected,
\* carries an order_id that is not null, and no two recorded orders carry the
\* same one.
C27_OrderIdsUnique ==
    /\ \A i \in 1..Len(order_history) : order_history[i].order_id # None
    /\ \A i, j \in 1..Len(order_history) :
           i # j => order_history[i].order_id # order_history[j].order_id

\* C28: the portfolio risk estimate is always within [0, 1]: it is the
\* default 0.1 while fewer than 30 values are recorded and otherwise the
\* value-at-risk proxy clamped to [0, 1], never negative.
C28_RiskWithinUnitInterval ==
    [][rm_out' # rm_out =>
          /\ RatLeq(<<0, 1>>, rm_out'.portfolio_risk)
          /\ RatLeq(rm_out'.portfolio_risk, <<1, 1>>)
          /\ Len(portfolio_history) < MinRiskHistory
                 => rm_out'.portfolio_risk = DefaultRisk]_vars

\* C29: after every update_portfolio_state call the history holds at most 100
\* values, and they are the most recently supplied ones in the order they
\* were supplied: the new value is the last entry, and the entries before it
\* are the latest entries of the history before the call, in the same order.
C29_HistoryKeepsLatestHundred ==
    [][risk_updates' = risk_updates + 1 =>
          LET old == portfolio_history
              new == portfolio_history'
          IN  /\ Len(new) = Min(Len(old) + 1, MaxRiskHistory)
              /\ new[Len(new)] \in RiskValues
              /\ \A k \in 1..(Len(new) - 1) :
                     new[Len(new) - k] = old[Len(old) + 1 - k]]_vars

\* a call on a full history: the oldest value (100) was dropped, the history
\* still holds 100 values and now starts with the second oldest (98)
C29_Witness ==
    /\ risk_updates >= 1
    /\ Len(portfolio_history) = MaxRiskHistory
    /\ portfolio_history[1] = 98

\* C30: once the current date is past end_date, run_simulation_step answers
\* with the status 'complete' and changes nothing, however often it is
\* called: no snapshot is appended, the date does not advance, cash, positions
\* and the transaction history stay as they are.
C30_CompleteChangesNothing ==
    [][current_date > end_date =>
          /\ simulation_history' = simulation_history
          /\ current_date' = current_date
          /\ cash' = cash
          /\ positions' = positions
          /\ transaction_history' = transaction_history
          /\ step_status' \in {step_status, "complete"}]_vars

\* run_simulation_step was called after the last day of a run that recorded
\* a trade, and answered 'complete'
C30_Witness ==
    /\ step_status = "complete"
    /\ current_date > end_date
    /\ simulation_history # <<>>
    /\ transaction_history # <<>>

====
